---- MODULE Spec2Model ----
(***************************************************************************)
(* A model of the AI-provider integration, the usage ledger and the chat   *)
(* turn of the chatbot backend (app/utils.py, app/routes.py,               *)
(* app/models.py).                                                         *)
(*                                                                         *)
(*   SpecAI        chat_with_ai / MultiProviderAIService.chat_completion   *)
(*   SpecUsage     track_usage called from concurrent requests             *)
(*   SpecUsageSeq  track_usage called from one request after another       *)
(*   SpecTurn      send_message turns with their background track_usage    *)
(*   SpecTurnSeq   send_message turns one after another                    *)
(*   SpecTitle     generate_chat_title on bounded texts                    *)
(*   SpecRate      check_rate_limit calls as time passes                   *)
(*   SpecAccess    turns with get_messages and delete_chat of any user     *)
(***************************************************************************)
EXTENDS Integers, Sequences, FiniteSets, TLC

\* ------------------------------------------------------------------ bounds
\* Largest token count a provider reports in the model.
MaxTok == 1
\* Number of track_usage calls (requests, each with its own Session).
MaxCalls == 3
\* Last calendar day of the model; days are 1..MaxDay.
MaxDay == 2
\* Number of send_message requests; each may run its track_usage task.
MaxTurns == 2

\* Longest text drawn over TitleChars for generate_chat_title.
MaxText == 5

\* Number of check_rate_limit calls made on top of the prepared ones.
MaxReqs == 4
\* Last second of the rate limiter's clock.
MaxClock == 120

\* ------------------------------------------------------------- AI service
VARIABLES
    ai_service,   \* utils.py:220-225  TRUE: the service object, FALSE: None
    env,          \* utils.py:14-30    which keys / flags are set
    aipc,         \* position inside chat_with_ai / chat_completion
    providers,    \* utils.py:185      the local list chat_completion builds
    idx,          \* utils.py:204      position of the for loop in providers
    attempts,     \* every provider call made so far, in order
    ccResult,     \* what chat_completion returned or raised
    aiResult      \* what chat_with_ai returned or raised

aiVars == <<ai_service, env, aipc, providers, idx, attempts, ccResult, aiResult>>

\* ------------------------------------------------------------ usage ledger
VARIABLES
    usage,        \* models.py:50-61   the committed rows of table "usage"
    today,        \* utils.py:268      the last value date.today() returned
    tpc,          \* position of each track_usage call
    targs,        \* utils.py:265      (user_id, input_tokens, output_tokens)
    tday,         \* utils.py:268      the call's local "today"
    tobj,         \* utils.py:270-289  the call's local "usage" object
    applied       \* history: per (user, date), the sums of the deltas and the
                  \* number of the calls that returned after their commit

usageVars == <<usage, today, tpc, targs, tday, tobj, applied>>

\* -------------------------------------------------------------- chat turns
VARIABLES
    messages,            \* models.py:37-47  the committed rows of "messages"
    chats,               \* models.py:23-34  the committed rows of "chats"
    clock,               \* routes.py:24     time.time(), in seconds
    user_request_times,  \* routes.py:16     per user, the admitted request times
    spc,                 \* position of each send_message request
    sreq,                \* routes.py:252-257 (current_user.id, chat_id, content)
    ssess,               \* the request's Session: loaded chat, pending objects
    sai,                 \* routes.py:299    what chat_with_ai returned
    resp,                \* the HTTP response of each request
    sctx,                \* routes.py:289-294 openai_messages of each request
    stamp,               \* models.py:45     the last created_at given to a row
    autoflush,           \* whether the Sessions of get_db flush before a query
    rl_log,              \* history: every check_rate_limit call and its answer
    last_resp            \* the last get_messages / delete_chat call and its answer

turnVars == <<messages, chats, clock, user_request_times, spc, sreq, ssess, sai, resp,
              sctx, stamp, autoflush, rl_log, last_resp>>

\* ------------------------------------------------------------- chat title
VARIABLES
    gt_content,   \* utils.py:299      the argument of generate_chat_title
    gt_title,     \* utils.py:321      what it returned
    gt_pc         \* "idle" before the call, "done" after

titleVars == <<gt_content, gt_title, gt_pc>>

vars == <<aiVars, usageVars, turnVars, titleVars>>

\* The order in which chat_completion appends providers (utils.py:188-198).
PreferenceOrder == <<"OpenRouter", "Groq", "Together AI", "OpenAI">>

Envs ==
    [openrouter_key : BOOLEAN, groq_key : BOOLEAN, together_key : BOOLEAN,
     openai_api_key : BOOLEAN, use_proxy : BOOLEAN, FORCE_OPENAI : BOOLEAN]

\* Ways one provider call fails: httpx raises (timeout, network), the status
\* is not 200 (429, 403, any other), or the 200 body lacks choices/message.
FailureKinds ==
    {"timeout", "network", "rate_limit", "http_403", "http_error", "malformed"}

\* A field of the response's "usage" object: absent (<<>>) or a count.
UsageField == {<<>>} \cup {<<n>> : n \in 0..MaxTok}

\* usage.get(key, 0)
UsageGet(f) == IF f = <<>> THEN 0 ELSE f[1]

\* What the remote end does with one request.
Responses ==
    [kind : {"ok"}, prompt_tokens : UsageField, completion_tokens : UsageField]
    \cup [kind : FailureKinds]

\* Exception messages, as word sequences (str(e) is searched for substrings).
NoProvidersMsg == <<"No", "AI", "providers", "configured.">>
AllFailedMsg == <<"All", "AI", "providers", "failed.">>

\* needle in hay, for word sequences
Contains(hay, needle) ==
    \E i \in 0..(Len(hay) - Len(needle)) :
        \A j \in 1..Len(needle) : hay[i + j] = needle[j]

Raise(m) == [kind |-> "raise", msg |-> m]
Return(c, i, o) == [kind |-> "return", content |-> c, input_tokens |-> i, output_tokens |-> o]
NoResult == [kind |-> "none"]

\* utils.py:233, utils.py:243: the fixed texts chat_with_ai returns.
NotConfiguredText == <<"AI", "service", "is", "not", "properly", "configured.">>
GeoText == <<"Geographic", "Restriction", "Detected">>

\* chat_with_openrouter / _groq / _together / _openai_direct: one attempt
\* against provider p whose remote end answers r.
ProviderCall(p, r) ==
    IF r.kind = "ok"
    THEN Return(<<"reply", p>>, UsageGet(r.prompt_tokens), UsageGet(r.completion_tokens))
    ELSE Raise(<<p, "API", "error:", r.kind>>)

SeqIf(b, x) == IF b THEN <<x>> ELSE <<>>

\* utils.py:185-198: the provider list, in order of preference.
BuildProviders(e) ==
    SeqIf(e.openrouter_key, "OpenRouter")
    \o SeqIf(e.groq_key, "Groq")
    \o SeqIf(e.together_key, "Together AI")
    \o SeqIf(e.openai_api_key /\ (e.use_proxy \/ e.FORCE_OPENAI), "OpenAI")

\* A loop that never returns from inside the for body.
LoopNextNoReturn(r, i) == [stop |-> FALSE, idx |-> i + 1]

\* utils.py:207-213: after an attempt with result r at loop position i,
\* return r (stop) or continue with the next provider.
LoopNext(r, i) ==
    IF r.kind = "return" THEN [stop |-> TRUE, idx |-> i]
    ELSE [stop |-> FALSE, idx |-> i + 1]

\* utils.py:232-236: chat_with_ai up to the call of chat_completion.
AIEnter ==
    /\ aipc = "idle"
    /\ IF ~ai_service
       THEN /\ aiResult' = Return(NotConfiguredText, 0, 0)
            /\ aipc' = "done"
       ELSE /\ aiResult' = aiResult
            /\ aipc' = "build"
    /\ UNCHANGED <<ai_service, env, providers, idx, attempts, ccResult>>
    /\ UNCHANGED <<usageVars, turnVars, titleVars>>

\* chat_completion without its "if not providers" check.
CCBuildNoCheck ==
    /\ aipc = "build"
    /\ providers' = BuildProviders(env)
    /\ idx' = 1
    /\ aipc' = "loop"
    /\ UNCHANGED <<ai_service, env, attempts, ccResult, aiResult>>
    /\ UNCHANGED <<usageVars, turnVars, titleVars>>

\* utils.py:185-201: build the list; raise when it is empty.
CCBuild ==
    /\ aipc = "build"
    /\ providers' = BuildProviders(env)
    /\ idx' = 1
    /\ IF providers' = <<>>
       THEN ccResult' = Raise(NoProvidersMsg) /\ aipc' = "cc_done"
       ELSE ccResult' = ccResult /\ aipc' = "loop"
    /\ UNCHANGED <<ai_service, env, attempts, aiResult>>
    /\ UNCHANGED <<usageVars, turnVars, titleVars>>

\* utils.py:204-213: one iteration of the for loop.
CCTryProvider ==
    /\ aipc = "loop"
    /\ idx <= Len(providers)
    /\ \E r \in Responses :
        LET p == providers[idx]
            res == ProviderCall(p, r)
            nxt == LoopNext(res, idx)
        IN  /\ attempts' = Append(attempts, [provider |-> p, response |-> r])
            /\ idx' = nxt.idx
            /\ IF nxt.stop
               THEN ccResult' = res /\ aipc' = "cc_done"
               ELSE ccResult' = ccResult /\ aipc' = aipc
    /\ UNCHANGED <<ai_service, env, providers, aiResult>>
    /\ UNCHANGED <<usageVars, turnVars, titleVars>>

\* utils.py:215-216: the loop ran out of providers.
CCAllFailed ==
    /\ aipc = "loop"
    /\ idx > Len(providers)
    /\ ccResult' = Raise(AllFailedMsg)
    /\ aipc' = "cc_done"
    /\ UNCHANGED <<ai_service, env, providers, idx, attempts, aiResult>>
    /\ UNCHANGED <<usageVars, turnVars, titleVars>>

\* An except branch that lets the exception through.
AIHandlerReraise(msg) == Raise(msg)

\* utils.py:238-262: the except branch of chat_with_ai.
AIHandler(msg) ==
    IF Contains(msg, <<"not", "supported">>) \/ Contains(msg, <<"403">>)
    THEN Return(GeoText, 0, 0)
    ELSE Return(<<"AI", "Error:">> \o msg, 0, 0)

\* utils.py:235-262: chat_completion's outcome becomes chat_with_ai's.
AIExit ==
    /\ aipc = "cc_done"
    /\ aiResult' = IF ccResult.kind = "return" THEN ccResult ELSE AIHandler(ccResult.msg)
    /\ aipc' = "done"
    /\ UNCHANGED <<ai_service, env, providers, idx, attempts, ccResult>>
    /\ UNCHANGED <<usageVars, turnVars, titleVars>>

\* ------------------------------------------------------------ track_usage
Calls == 1..MaxCalls
Users == {"u1", "u2"}
Tokens == 0..MaxTok
Days == 1..MaxDay

NoneApplied == [input_tokens |-> 0, output_tokens |-> 0, message_count |-> 0]

NoArgs == [user_id |-> "", input_tokens |-> 0, output_tokens |-> 0]
\* The local variable before the query, and after a query that found nothing.
NoObj == [found |-> FALSE, new |-> FALSE]

\* Rows of the given key: the filter of utils.py:270-273 and routes.py:363-366.
RowsOf(u, d) == {r \in usage : r.user_id = u /\ r.date = d}

\* utils.py:265-268: track_usage is entered with its arguments and reads
\* date.today(), which never goes back.
TrackUsageBegin(c, u, i, o) ==
    /\ tpc[c] = "idle"
    /\ \E d \in today..MaxDay :
        /\ d <= today + 1
        /\ today' = d
        /\ tday' = [tday EXCEPT ![c] = d]
    /\ targs' = [targs EXCEPT ![c] = [user_id |-> u, input_tokens |-> i, output_tokens |-> o]]
    /\ tpc' = [tpc EXCEPT ![c] = "query"]
    /\ UNCHANGED <<usage, tobj, applied>>

\* A request calls track_usage (calls are numbered in the order they start).
TrackUsageCall(c, u, i, o) ==
    /\ \A b \in Calls : b < c => tpc[b] # "idle"
    /\ TrackUsageBegin(c, u, i, o)
    /\ UNCHANGED <<aiVars, turnVars, titleVars>>

\* utils.py:270-273: SELECT ... WHERE user_id, date; first() takes any one
\* matching row (no ORDER BY) or None. The object remembers what was loaded.
TrackQuery(c) ==
    /\ tpc[c] = "query"
    /\ LET rows == RowsOf(targs[c].user_id, tday[c]) IN
       IF rows = {}
       THEN tobj' = [tobj EXCEPT ![c] = NoObj]
       ELSE \E r \in rows :
               tobj' = [tobj EXCEPT ![c] = [found |-> TRUE, new |-> FALSE, loaded |-> r, cur |-> r]]
    /\ tpc' = [tpc EXCEPT ![c] = "apply"]
    /\ UNCHANGED <<usage, today, targs, tday, applied>>
    /\ UNCHANGED <<aiVars, turnVars, titleVars>>

\* An in-place add that overwrites the counters with the deltas.
AddInPlaceOverwrite(r, i, o) ==
    [r EXCEPT !.input_tokens = i,
              !.output_tokens = o,
              !.total_tokens = i + o,
              !.message_count = 1]

\* utils.py:276-279: the four "+=" on the loaded object.
AddInPlace(r, i, o) ==
    [r EXCEPT !.input_tokens = @ + i,
              !.output_tokens = @ + o,
              !.total_tokens = @ + (i + o),
              !.message_count = @ + 1]

\* utils.py:281-288: Usage(...); the primary key is a fresh uuid (the call's
\* number stands for it).
NewUsage(c, u, d, i, o) ==
    [id |-> c, user_id |-> u, date |-> d,
     input_tokens |-> i, output_tokens |-> o,
     total_tokens |-> i + o, message_count |-> 1]

\* utils.py:275-289: the if/else on the query's result.
TrackApply(c) ==
    /\ tpc[c] = "apply"
    /\ LET a == targs[c] IN
       IF tobj[c].found
       THEN tobj' = [tobj EXCEPT ![c].cur = AddInPlace(tobj[c].cur, a.input_tokens, a.output_tokens)]
       ELSE tobj' = [tobj EXCEPT ![c] =
                [found |-> FALSE, new |-> TRUE,
                 cur |-> NewUsage(c, a.user_id, tday[c], a.input_tokens, a.output_tokens)]]
    /\ tpc' = [tpc EXCEPT ![c] = "commit"]
    /\ UNCHANGED <<usage, today, targs, tday, applied>>
    /\ UNCHANGED <<aiVars, turnVars, titleVars>>

\* The UPDATE the unit of work emits for a loaded object: SET lists the
\* attributes whose value differs from the loaded one, with the new value;
\* row is the row as stored when the UPDATE runs.
UpdateRow(row, o) ==
    [row EXCEPT
        !.input_tokens = IF o.cur.input_tokens # o.loaded.input_tokens THEN o.cur.input_tokens ELSE @,
        !.output_tokens = IF o.cur.output_tokens # o.loaded.output_tokens THEN o.cur.output_tokens ELSE @,
        !.total_tokens = IF o.cur.total_tokens # o.loaded.total_tokens THEN o.cur.total_tokens ELSE @,
        !.message_count = IF o.cur.message_count # o.loaded.message_count THEN o.cur.message_count ELSE @]

\* utils.py:291: db.commit() flushes the session (UPDATE of the loaded row
\* by primary key, or INSERT of the new object) and commits, as one
\* transaction.
Committed(tbl, o) ==
    IF o.found
    THEN {IF r.id = o.loaded.id THEN UpdateRow(r, o) ELSE r : r \in tbl}
    ELSE IF o.new THEN tbl \cup {o.cur}
    ELSE tbl

\* utils.py:291-292: the commit succeeds.
TrackCommit(c) ==
    /\ tpc[c] = "commit"
    /\ usage' = Committed(usage, tobj[c])
    /\ tpc' = [tpc EXCEPT ![c] = "ok"]
    /\ tobj' = [tobj EXCEPT ![c] = NoObj]
    /\ applied' = [applied EXCEPT ![<<targs[c].user_id, tday[c]>>] =
            [input_tokens |-> @.input_tokens + targs[c].input_tokens,
             output_tokens |-> @.output_tokens + targs[c].output_tokens,
             message_count |-> @.message_count + 1]]
    /\ targs' = [targs EXCEPT ![c] = NoArgs]
    /\ tday' = [tday EXCEPT ![c] = 0]
    /\ today' = today
    /\ UNCHANGED <<aiVars, turnVars, titleVars>>

\* An error path that writes the session's pending changes.
RolledBackFlushed(tbl, o) == Committed(tbl, o)

\* utils.py:296: db.rollback() discards what the session has pending; the
\* committed table is as it was.
RolledBack(tbl, o) == tbl

\* utils.py:294-296: the query, an add, or the commit raises; the except
\* branch prints, rolls back and track_usage returns.
TrackFail(c) ==
    /\ tpc[c] \in {"query", "apply", "commit"}
    /\ usage' = RolledBack(usage, tobj[c])
    /\ tpc' = [tpc EXCEPT ![c] = "failed"]
    /\ tobj' = [tobj EXCEPT ![c] = NoObj]
    /\ targs' = [targs EXCEPT ![c] = NoArgs]
    /\ tday' = [tday EXCEPT ![c] = 0]
    /\ UNCHANGED <<today, applied>>
    /\ UNCHANGED <<aiVars, turnVars, titleVars>>

\* An empty table, the first day, no call under way.
LedgerAtRest ==
    /\ usage = {}
    /\ today = 1
    /\ tpc = [c \in Calls |-> "idle"]
    /\ targs = [c \in Calls |-> NoArgs]
    /\ tday = [c \in Calls |-> 0]
    /\ tobj = [c \in Calls |-> NoObj]
    /\ applied = [k \in Users \X Days |-> NoneApplied]

\* chat_with_ai has not been called.
AIAtRest ==
    /\ aipc = "idle"
    /\ providers = <<>>
    /\ idx = 1
    /\ attempts = <<>>
    /\ ccResult = NoResult
    /\ aiResult = NoResult

\* ------------------------------------------------------ generate_chat_title
\* Texts are sequences of characters.
Letters == <<"a","b","c","d","e","f","g","h","i","j","k","l","m",
             "n","o","p","q","r","s","t","u","v","w","x","y","z">>
Caps == <<"A","B","C","D","E","F","G","H","I","J","K","L","M",
          "N","O","P","Q","R","S","T","U","V","W","X","Y","Z">>

\* str.lower() and str.upper() on one character.
LowerChar(c) == IF \E i \in 1..26 : Caps[i] = c
                THEN Letters[CHOOSE i \in 1..26 : Caps[i] = c] ELSE c
UpperChar(c) == IF \E i \in 1..26 : Letters[i] = c
                THEN Caps[CHOOSE i \in 1..26 : Letters[i] = c] ELSE c
Lower(s) == [i \in 1..Len(s) |-> LowerChar(s[i])]

\* The characters str.strip() and str.split() treat as white space.
IsSpace(c) == c \in {" ", "\t", "\n"}

RECURSIVE SplitFrom(_, _, _)
\* str.split(): the maximal runs of non-space characters of s from position
\* i on, cur being the run under way.
SplitFrom(s, i, cur) ==
    IF i > Len(s) THEN (IF cur = <<>> THEN <<>> ELSE <<cur>>)
    ELSE IF IsSpace(s[i])
         THEN (IF cur = <<>> THEN <<>> ELSE <<cur>>) \o SplitFrom(s, i + 1, <<>>)
         ELSE SplitFrom(s, i + 1, Append(cur, s[i]))

Split(s) == SplitFrom(s, 1, <<>>)

\* str.strip(): s without its leading and trailing white space.
Strip(s) ==
    LET ns == {i \in 1..Len(s) : ~IsSpace(s[i])} IN
    IF ns = {} THEN <<>>
    ELSE SubSeq(s, CHOOSE i \in ns : \A j \in ns : i <= j,
                   CHOOSE i \in ns : \A j \in ns : i >= j)

RECURSIVE Join(_)
\* " ".join(ws)
Join(ws) ==
    IF ws = <<>> THEN <<>>
    ELSE IF Len(ws) = 1 THEN ws[1]
    ELSE ws[1] \o <<" ">> \o Join(Tail(ws))

\* s[:n]
Take(s, n) == SubSeq(s, 1, IF n < Len(s) THEN n ELSE Len(s))
\* s[n:]
Drop(s, n) == SubSeq(s, n + 1, Len(s))

\* utils.py:302: prefixes_to_remove, each already split into words.
prefixes_to_remove ==
    << <<<<"h","i">>>>,
       <<<<"h","e","l","l","o">>>>,
       <<<<"h","e","y">>>>,
       <<<<"c","a","n">>, <<"y","o","u">>>>,
       <<<<"c","o","u","l","d">>, <<"y","o","u">>>>,
       <<<<"p","l","e","a","s","e">>>>,
       <<<<"i">>, <<"n","e","e","d">>>>,
       <<<<"h","e","l","p">>, <<"m","e">>>> >>

RECURSIVE RemovePrefix(_, _)
\* utils.py:305-309: the for loop from prefix k on: the first prefix that
\* matches the leading words is removed and the loop ends (break).
RemovePrefix(words, k) ==
    IF k > Len(prefixes_to_remove) THEN words
    ELSE LET pw == prefixes_to_remove[k] IN
         IF Take(words, Len(pw)) = pw
         THEN Drop(words, Len(pw))
         ELSE RemovePrefix(words, k + 1)

\* utils.py:321: the length a title is cut to, and the mark of a cut.
TitleMax == 50
Ellipsis == <<".", ".", ".">>
\* utils.py:321: the fallback label.
NewChatLabel == <<"N","e","w"," ","C","h","a","t">>

\* utils.py:321 without its fallback.
TitleOrFallbackNone(t) == t

\* utils.py:321: ... or "New Chat"
TitleOrFallback(t) == IF t = <<>> THEN NewChatLabel ELSE t

\* utils.py:299-321
generate_chat_title(content0) ==
    LET content == Strip(content0)
        words == RemovePrefix(Split(Lower(content)), 1)
        meaningful == Take(SelectSeq(words, LAMBDA w : Len(w) > 2), 6)
        meaningful_words == IF meaningful = <<>> THEN Take(Split(content), 4) ELSE meaningful
        joined == Join(meaningful_words)
        title == IF joined # <<>> THEN <<UpperChar(joined[1])>> \o Tail(joined) ELSE joined
    IN  TitleOrFallback(Take(title, TitleMax) \o (IF Len(title) > TitleMax THEN Ellipsis ELSE <<>>))

\* utils.py:299: generate_chat_title(content) is called and returns.
GenerateChatTitle ==
    /\ gt_pc = "idle"
    /\ gt_title' = generate_chat_title(gt_content)
    /\ gt_pc' = "done"
    /\ gt_content' = gt_content
    /\ UNCHANGED <<aiVars, usageVars, turnVars>>

\* generate_chat_title has not been called.
TitleAtRest ==
    /\ gt_content = <<>>
    /\ gt_title = <<>>
    /\ gt_pc = "idle"

\* ------------------------------------------------------------ send_message
Turns == 1..MaxTurns
ChatIds == {"c1", "c2"}
\* Message texts.
Contents == {<<"h", "i">>}

\* routes.py:35 and routes.py:31: 30 requests per 60 seconds.
RateLimit == 30
RateWindow == 60
\* config.py:33: rate limiting is on unless the environment turns it off.
ENABLE_RATE_LIMITING == TRUE

\* A limiter that refuses only above the limit.
check_rate_limit_above(times, t) ==
    LET recent == SelectSeq(times, LAMBDA x : t - x < RateWindow) IN
    IF Len(recent) > RateLimit
    THEN [admit |-> FALSE, times |-> recent]
    ELSE [admit |-> TRUE, times |-> Append(recent, t)]

\* A limiter that also records the time of a request it refuses.
check_rate_limit_records_refused(times, t) ==
    LET recent == SelectSeq(times, LAMBDA x : t - x < RateWindow) IN
    [admit |-> Len(recent) < RateLimit, times |-> Append(recent, t)]

\* routes.py:19-39: the decision and the user's list afterwards.
check_rate_limit(times, t) ==
    IF ~ENABLE_RATE_LIMITING THEN [admit |-> TRUE, times |-> times]
    ELSE LET recent == SelectSeq(times, LAMBDA x : t - x < RateWindow) IN
         IF Len(recent) >= RateLimit
         THEN [admit |-> FALSE, times |-> recent]
         ELSE [admit |-> TRUE, times |-> Append(recent, t)]

RECURSIVE CompletionFrom(_, _, _)
\* utils.py:204-216: the for loop from position i, the remote ends answering rs.
CompletionFrom(ps, i, rs) ==
    IF i > Len(ps) THEN Raise(AllFailedMsg)
    ELSE LET res == ProviderCall(ps[i], rs[i])
             nxt == LoopNext(res, i)
         IN  IF nxt.stop THEN res ELSE CompletionFrom(ps, nxt.idx, rs)

\* utils.py:181-216 as a function of the configuration and the answers.
ChatCompletion(e, rs) ==
    IF BuildProviders(e) = <<>> THEN Raise(NoProvidersMsg)
    ELSE CompletionFrom(BuildProviders(e), 1, rs)

\* utils.py:228-262 as a function of the configuration and the answers.
ChatWithAI(svc, e, rs) ==
    IF ~svc THEN Return(NotConfiguredText, 0, 0)
    ELSE LET r == ChatCompletion(e, rs) IN
         IF r.kind = "return" THEN r ELSE AIHandler(r.msg)

NoReq == [user_id |-> "", chat_id |-> "", content |-> <<>>]
NoSession == [chat |-> <<>>, pending |-> {}, flushed |-> {}]
NoResp == [status |-> 0, detail |-> ""]
Http(st, d) == [status |-> st, detail |-> d]

\* models.py:37-47: a Message object; (turn, role) stands for its uuid;
\* created_at is 0 until the row is inserted.
Message(t, ch, role, content, tokens) ==
    [id |-> <<t, role>>, chat_id |-> ch, role |-> role, content |-> content,
     tokens |-> tokens, created_at |-> 0]

\* models.py:45: the INSERT of m gives created_at its default, the time of
\* the insert.
Inserted(m, at) == [m EXCEPT !.created_at = at]

\* config.py:29: int(os.getenv("MAX_CONVERSATION_HISTORY", "50")); the
\* deployment modelled sets it to 2.
MAX_CONVERSATION_HISTORY == 2

RECURSIVE OrderByCreatedDesc(_)
\* routes.py:281: the rows of S, newest first.
OrderByCreatedDesc(S) ==
    IF S = {} THEN <<>>
    ELSE LET m == CHOOSE x \in S : \A y \in S : y.created_at <= x.created_at
         IN  <<m>> \o OrderByCreatedDesc(S \ {m})

\* list.reverse()
Reverse(s) == [i \in 1..Len(s) |-> s[Len(s) + 1 - i]]

\* routes.py:291: one entry of openai_messages.
Entry(role, content) == [role |-> role, content |-> content]

\* A query that returns the whole chat, oldest first.
RecentMessagesUnlimited(rows, ch) ==
    Reverse(OrderByCreatedDesc({m \in rows : m.chat_id = ch}))

\* routes.py:279-286: filter by chat, newest first, limit, reverse; rows
\* is what the request's transaction sees.
RecentMessages(rows, ch) ==
    Reverse(Take(OrderByCreatedDesc({m \in rows : m.chat_id = ch}), MAX_CONVERSATION_HISTORY))

\* routes.py:289-294: the history entries, then the new user message.
OpenAIMessages(recent, content) ==
    [i \in 1..Len(recent) |-> Entry(recent[i].role, recent[i].content)]
    \o <<Entry("user", content)>>

\* get_messages and delete_chat have not been called.
NoCall == [op |-> "none", user_id |-> "", chat_id |-> "", status |-> 0, detail |-> "",
           body |-> <<>>]

\* routes.py:221, 228, 241, 248: the answer of a get_messages or delete_chat
\* call: who asked for which chat, the status, the error detail, the payload.
Answer(op, u, ch, st, detail, body) ==
    [op |-> op, user_id |-> u, chat_id |-> ch, status |-> st, detail |-> detail,
     body |-> body]

\* What can go wrong in the database while the turn runs, as str(e).
DbErrors == {<<"database", "error">>, <<"connection", "timeout">>, <<"rate", "limit", "reached">>}

\* routes.py:332-339: the HTTPException chosen from str(e).lower().
ErrorResponse(e) ==
    IF Contains(e, <<"rate", "limit">>) THEN Http(429, "AI service is currently busy.")
    ELSE IF Contains(e, <<"timeout">>) THEN Http(408, "Request timed out.")
    ELSE Http(500, "Sorry, I'm having trouble processing your message.")

\* A lookup by chat id alone, whoever asks.
OwnedChatAnyUser(u, ch) == ch \in DOMAIN chats

\* routes.py:219, 239, 264: the chat of that id that belongs to the user,
\* if any.
OwnedChat(u, ch) == ch \in DOMAIN chats /\ chats[ch].user_id = u

\* A user message that is committed as soon as it is added.
AfterAddCommitted(tbl, m) == tbl \cup {m}

\* routes.py:276: db.add(user_message) puts the object in the session; the
\* committed table is as it was.
AfterAdd(tbl, m) == tbl

\* routes.py:252-276: rate limit, ownership, and the user message added to
\* the session (turns are numbered in the order they start).
SendMessage(t, u, ch, content) ==
    /\ spc[t] = "idle"
    /\ \A b \in Turns : b < t => spc[b] # "idle"
    /\ LET rl == check_rate_limit(user_request_times[u], clock)
           um == Message(t, ch, "user", content, 0)
       IN
       /\ user_request_times' = [user_request_times EXCEPT ![u] = rl.times]
       /\ rl_log' = Append(rl_log, [user |-> u, time |-> clock, admit |-> rl.admit])
       /\ sreq' = [sreq EXCEPT ![t] = [user_id |-> u, chat_id |-> ch, content |-> content]]
       /\ IF ~rl.admit
          THEN /\ resp' = [resp EXCEPT ![t] = Http(429, "Rate limit exceeded. Please wait a moment.")]
               /\ spc' = [spc EXCEPT ![t] = "done"]
               /\ UNCHANGED <<ssess, messages>>
          ELSE IF ~OwnedChat(u, ch)
          THEN /\ resp' = [resp EXCEPT ![t] = Http(404, "Chat not found")]
               /\ spc' = [spc EXCEPT ![t] = "done"]
               /\ UNCHANGED <<ssess, messages>>
          ELSE /\ ssess' = [ssess EXCEPT ![t] = [chat |-> chats[ch], pending |-> {um}, flushed |-> {}]]
               /\ messages' = AfterAdd(messages, um)
               /\ spc' = [spc EXCEPT ![t] = "history"]
               /\ resp' = resp
    /\ UNCHANGED <<chats, clock, sai, sctx, stamp, autoflush, last_resp>>
    /\ UNCHANGED <<aiVars, usageVars, titleVars>>

\* What a Session with autoflush does before a query: the pending objects
\* are inserted (inside the open transaction) at time at.
Autoflushed(on, pending, at) == IF on THEN {Inserted(m, at) : m \in pending} ELSE {}

\* routes.py:279-296: the history query and the message list. The query
\* sees the committed rows and the rows its own transaction has inserted.
QueryHistory(t) ==
    /\ spc[t] = "history"
    /\ LET flushed == Autoflushed(autoflush, ssess[t].pending, stamp + 1)
           recent == RecentMessages(messages \cup flushed, sreq[t].chat_id)
       IN
       /\ ssess' = [ssess EXCEPT ![t].flushed = flushed,
                                 ![t].pending = IF flushed = {} THEN @ ELSE {}]
       /\ stamp' = IF flushed = {} THEN stamp ELSE stamp + 1
       /\ sctx' = [sctx EXCEPT ![t] = OpenAIMessages(recent, sreq[t].content)]
    /\ spc' = [spc EXCEPT ![t] = "ai"]
    /\ UNCHANGED <<messages, chats, clock, user_request_times, sreq, sai, resp, autoflush, rl_log, last_resp>>
    /\ UNCHANGED <<aiVars, usageVars, titleVars>>

\* routes.py:299: await chat_with_ai(openai_messages).
CallAI(t) ==
    /\ spc[t] = "ai"
    /\ \E rs \in [1..Len(BuildProviders(env)) -> Responses] :
          sai' = [sai EXCEPT ![t] = ChatWithAI(ai_service, env, rs)]
    /\ spc' = [spc EXCEPT ![t] = "store"]
    /\ UNCHANGED <<messages, chats, clock, user_request_times, sreq, ssess, resp,
                   sctx, stamp, autoflush, rl_log, last_resp>>
    /\ UNCHANGED <<aiVars, usageVars, titleVars>>

\* routes.py:311-316: the metadata update on the loaded chat object.
ChatUpdated(c, content) ==
    [c EXCEPT !.title = IF c.message_count = 0 THEN generate_chat_title(content) ELSE @,
              !.message_count = @ + 2]

\* The UPDATE the unit of work emits for the loaded chat: the attributes
\* whose value differs from the loaded one.
UpdateChatRow(row, loaded, cur) ==
    [row EXCEPT !.title = IF cur.title # loaded.title THEN cur.title ELSE @,
                !.message_count = IF cur.message_count # loaded.message_count
                                  THEN cur.message_count ELSE @]

\* A commit after which only the user message is stored.
StoredMessagesUserOnly(tbl, pending, am) == tbl \cup pending

\* routes.py:308-319: the pending user message and the assistant message
\* are inserted by the one commit.
StoredMessages(tbl, pending, am) == tbl \cup pending \cup {am}

\* routes.py:301-319: assistant message, chat metadata, db.commit(). (The
\* UPDATE of a chat row that is gone matches nothing and the commit raises.)
StoreReply(t) ==
    /\ spc[t] = "store"
    /\ sreq[t].chat_id \in DOMAIN chats
    /\ LET ch == sreq[t].chat_id
           am == Message(t, ch, "assistant", sai[t].content, sai[t].output_tokens)
           loaded == ssess[t].chat
           n == Cardinality(ssess[t].pending)
           inserted == {Inserted(m, stamp + 1) : m \in ssess[t].pending}
       IN
       /\ messages' = StoredMessages(messages, ssess[t].flushed \cup inserted,
                                     Inserted(am, stamp + n + 1))
       /\ stamp' = stamp + n + 1
       /\ chats' = [chats EXCEPT ![ch] = UpdateChatRow(@, loaded, ChatUpdated(loaded, sreq[t].content))]
    /\ ssess' = [ssess EXCEPT ![t] = NoSession]
    /\ spc' = [spc EXCEPT ![t] = "refresh"]
    /\ UNCHANGED <<clock, user_request_times, sreq, sai, resp, sctx, autoflush, rl_log, last_resp>>
    /\ UNCHANGED <<aiVars, usageVars, titleVars>>

\* routes.py:328-339: something inside the try raised e (the history query,
\* the commit, the refresh): rollback, then the HTTPException.
TurnFail(t, e) ==
    /\ spc[t] \in {"history", "store", "refresh"}
    /\ ssess' = [ssess EXCEPT ![t] = NoSession]
    /\ resp' = [resp EXCEPT ![t] = ErrorResponse(e)]
    /\ spc' = [spc EXCEPT ![t] = "done"]
    /\ UNCHANGED <<messages, chats, clock, user_request_times, sreq, sai,
                   sctx, stamp, autoflush, rl_log, last_resp>>
    /\ UNCHANGED <<aiVars, usageVars, titleVars>>

\* routes.py:320-326: refresh, add_task(track_usage, ...), the response.
FinishTurn(t) ==
    /\ spc[t] = "refresh"
    /\ resp' = [resp EXCEPT ![t] = Http(200, "")]
    /\ spc' = [spc EXCEPT ![t] = "task"]
    /\ UNCHANGED <<messages, chats, clock, user_request_times, sreq, ssess, sai,
                   sctx, stamp, autoflush, rl_log, last_resp>>
    /\ UNCHANGED <<aiVars, usageVars, titleVars>>

\* routes.py:323: the background task starts once the response is sent.
RunTask(t) ==
    /\ spc[t] = "task"
    /\ TrackUsageBegin(t, sreq[t].user_id, sai[t].input_tokens, sai[t].output_tokens)
    /\ spc' = [spc EXCEPT ![t] = "done"]
    /\ UNCHANGED <<messages, chats, clock, user_request_times, sreq, ssess, sai, resp,
                   sctx, stamp, autoflush, rl_log, last_resp>>
    /\ UNCHANGED <<aiVars, titleVars>>

\* Two chats, each with its owner; no message yet; no request under way.
NoChat == [c \in ChatIds |-> [user_id |-> IF c = "c1" THEN "u1" ELSE "u2",
                              title |-> NewChatLabel, message_count |-> 0]]

\* Chat c1 after one committed turn of its owner.
PriorMessages ==
    {Inserted(Message(0, "c1", "user", <<"h", "i">>, 0), 1),
     Inserted(Message(0, "c1", "assistant", <<"reply", "OpenRouter">>, 0), 2)}
PriorChats ==
    [NoChat EXCEPT !["c1"] = ChatUpdated(@, <<"h", "i">>)]

\* The log of the admitted requests whose times are in times.
LogOf(u, times) == [i \in 1..Len(times) |-> [user |-> u, time |-> times[i], admit |-> TRUE]]

\* No request is under way.
RequestsAtRest ==
    /\ clock = 0
    /\ spc = [t \in Turns |-> "idle"]
    /\ sreq = [t \in Turns |-> NoReq]
    /\ ssess = [t \in Turns |-> NoSession]
    /\ sai = [t \in Turns |-> NoResult]
    /\ resp = [t \in Turns |-> NoResp]
    /\ sctx = [t \in Turns |-> <<>>]
    /\ last_resp = NoCall

TurnsAtRest ==
    /\ messages = {}
    /\ chats = NoChat
    /\ clock = 0
    /\ spc = [t \in Turns |-> "idle"]
    /\ sreq = [t \in Turns |-> NoReq]
    /\ ssess = [t \in Turns |-> NoSession]
    /\ sai = [t \in Turns |-> NoResult]
    /\ resp = [t \in Turns |-> NoResp]
    /\ sctx = [t \in Turns |-> <<>>]
    /\ stamp = 0
    /\ autoflush = FALSE
    /\ rl_log = <<>>
    /\ last_resp = NoCall

\* ----------------------------------------------------------- specifications
InitAI ==
    /\ TitleAtRest
    /\ ai_service \in BOOLEAN
    /\ env \in Envs
    /\ AIAtRest
    /\ LedgerAtRest
    /\ TurnsAtRest
    /\ user_request_times = [u \in Users |-> <<>>]

NextAI == AIEnter \/ CCBuild \/ CCTryProvider \/ CCAllFailed \/ AIExit

SpecAI == InitAI /\ [][NextAI]_vars

\* One configuration of the service, at rest.
AIIdle ==
    /\ ai_service = TRUE
    /\ env = [openrouter_key |-> TRUE, groq_key |-> FALSE, together_key |-> FALSE,
              openai_api_key |-> FALSE, use_proxy |-> FALSE, FORCE_OPENAI |-> FALSE]
    /\ AIAtRest

InitUsage ==
    /\ TitleAtRest
    /\ LedgerAtRest
    /\ AIIdle
    /\ TurnsAtRest
    /\ user_request_times = [u \in Users |-> <<>>]

\* Requests in parallel: a call may start while others are under way.
NextUsage ==
    \E c \in Calls :
        \/ \E u \in Users, i \in Tokens, o \in Tokens : TrackUsageCall(c, u, i, o)
        \/ TrackQuery(c)
        \/ TrackApply(c)
        \/ TrackCommit(c)
        \/ TrackFail(c)

SpecUsage == InitUsage /\ [][NextUsage]_vars

\* No call is between its start and its end.
NoCallActive == \A c \in Calls : tpc[c] \in {"idle", "ok", "failed"}

\* A call that starts when no other is under way.
TrackUsageCallAlone(c, u, i, o) == NoCallActive /\ TrackUsageCall(c, u, i, o)

\* One request after another.
NextUsageSeq ==
    \E c \in Calls :
        \/ \E u \in Users, i \in Tokens, o \in Tokens : TrackUsageCallAlone(c, u, i, o)
        \/ TrackQuery(c)
        \/ TrackApply(c)
        \/ TrackCommit(c)
        \/ TrackFail(c)

SpecUsageSeq == InitUsage /\ [][NextUsageSeq]_vars

\* A user who has one request left in the current window.
AlmostLimited == [i \in 1..(RateLimit - 1) |-> 0]

\* The same number of requests, 15 of them half a window ago.
Spread == [i \in 1..(RateLimit - 1) |-> IF i <= 15 THEN 0 - 30 ELSE 0]

\* routes.py:175, 194, 260: get_chats, create_chat or send_message of user u
\* reaches its check_rate_limit call (which runs without yielding).
CheckRateLimit(u) ==
    /\ Len(rl_log) < (RateLimit - 1) + MaxReqs
    /\ LET rl == check_rate_limit(user_request_times[u], clock) IN
       /\ user_request_times' = [user_request_times EXCEPT ![u] = rl.times]
       /\ rl_log' = Append(rl_log, [user |-> u, time |-> clock, admit |-> rl.admit])
    /\ UNCHANGED <<messages, chats, clock, spc, sreq, ssess, sai, resp, sctx, stamp, autoflush, last_resp>>
    /\ UNCHANGED <<aiVars, usageVars, titleVars>>

\* time.time() has moved on by d seconds.
Tick(d) ==
    /\ clock + d <= MaxClock
    /\ clock' = clock + d
    /\ UNCHANGED <<messages, chats, user_request_times, spc, sreq, ssess, sai, resp,
                   sctx, stamp, autoflush, rl_log, last_resp>>
    /\ UNCHANGED <<aiVars, usageVars, titleVars>>

\* Gaps that put an earlier request just inside and just outside the window.
TickSteps == {RateWindow - 1, RateWindow}

InitRate ==
    /\ TitleAtRest
    /\ LedgerAtRest
    /\ AIIdle
    /\ RequestsAtRest
    /\ messages = {} /\ chats = NoChat /\ stamp = 0 /\ autoflush = FALSE
    /\ \E times \in {AlmostLimited, Spread} :
          /\ user_request_times = [u \in Users |-> IF u = "u1" THEN times ELSE <<>>]
          /\ rl_log = LogOf("u1", times)

NextRate ==
    \/ \E u \in Users : CheckRateLimit(u)
    \/ \E d \in TickSteps : Tick(d)

SpecRate == InitRate /\ [][NextRate]_vars

InitTurn ==
    /\ TitleAtRest
    /\ LedgerAtRest
    /\ AIIdle
    /\ RequestsAtRest
    /\ \/ messages = {} /\ chats = NoChat /\ stamp = 0
       \/ messages = PriorMessages /\ chats = PriorChats /\ stamp = 2
    /\ autoflush \in BOOLEAN
    /\ \E times \in {<<>>, AlmostLimited} :
          /\ user_request_times = [u \in Users |-> IF u = "u1" THEN times ELSE <<>>]
          /\ rl_log = LogOf("u1", times)

NextTurn ==
    \E t \in Turns :
        \/ \E u \in Users, ch \in ChatIds, content \in Contents : SendMessage(t, u, ch, content)
        \/ QueryHistory(t)
        \/ CallAI(t)
        \/ StoreReply(t)
        \/ \E e \in DbErrors : TurnFail(t, e)
        \/ FinishTurn(t)
        \/ RunTask(t)
        \/ TrackQuery(t)
        \/ TrackApply(t)
        \/ TrackCommit(t)
        \/ TrackFail(t)

SpecTurn == InitTurn /\ [][NextTurn]_vars

\* No request is between its start and its response, no task is running.
AllQuiet ==
    /\ \A t \in Turns : spc[t] \in {"idle", "done"}
    /\ NoCallActive

\* A request that arrives when nothing else is under way.
SendMessageAlone(t, u, ch, content) == AllQuiet /\ SendMessage(t, u, ch, content)

\* One turn after another, each with its background task.
NextTurnSeq ==
    \E t \in Turns :
        \/ \E u \in Users, ch \in ChatIds, content \in Contents : SendMessageAlone(t, u, ch, content)
        \/ QueryHistory(t)
        \/ CallAI(t)
        \/ StoreReply(t)
        \/ \E e \in DbErrors : TurnFail(t, e)
        \/ FinishTurn(t)
        \/ RunTask(t)
        \/ TrackQuery(t)
        \/ TrackApply(t)
        \/ TrackCommit(t)
        \/ TrackFail(t)

SpecTurnSeq == InitTurn /\ [][NextTurnSeq]_vars

\* routes.py:232-248: get_messages by user u on chat ch: 404 unless the chat
\* is theirs, else its messages by created_at.
GetMessages(u, ch) ==
    /\ last_resp' =
          IF ~OwnedChat(u, ch) THEN Answer("get_messages", u, ch, 404, "Chat not found", <<>>)
          ELSE Answer("get_messages", u, ch, 200, "",
                      Reverse(OrderByCreatedDesc({m \in messages : m.chat_id = ch})))
    /\ UNCHANGED <<messages, chats, clock, user_request_times, spc, sreq, ssess, sai, resp,
                   sctx, stamp, autoflush, rl_log>>
    /\ UNCHANGED <<aiVars, usageVars, titleVars>>

\* routes.py:212-228: delete_chat by user u on chat ch: 404 unless the chat
\* is theirs, else the chat row and (cascade) its messages are deleted and
\* committed.
DeleteChat(u, ch) ==
    /\ IF OwnedChat(u, ch)
       THEN LET mine == {m \in messages : m.chat_id = ch} IN
            /\ messages' = messages \ mine
            /\ chats' = [c \in DOMAIN chats \ {ch} |-> chats[c]]
            /\ last_resp' = Answer("delete_chat", u, ch, 200, "", <<Cardinality(mine)>>)
       ELSE /\ last_resp' = Answer("delete_chat", u, ch, 404, "Chat not found", <<>>)
            /\ UNCHANGED <<messages, chats>>
    /\ UNCHANGED <<clock, user_request_times, spc, sreq, ssess, sai, resp,
                   sctx, stamp, autoflush, rl_log>>
    /\ UNCHANGED <<aiVars, usageVars, titleVars>>

\* Turns one after another, with get_messages and delete_chat calls of any
\* user on any chat at any moment.
NextAccess ==
    \/ NextTurnSeq
    \/ \E u \in Users, ch \in ChatIds : GetMessages(u, ch)
    \/ \E u \in Users, ch \in ChatIds : DeleteChat(u, ch)

\* Chat c1 has the messages of an earlier turn and its owner u1 is one
\* request short of the rate limit; nothing is under way. (Whether the
\* session autoflushes decides what a history query sees, not who may ask.)
InitAccess ==
    /\ TitleAtRest
    /\ LedgerAtRest
    /\ AIIdle
    /\ RequestsAtRest
    /\ messages = PriorMessages /\ chats = PriorChats /\ stamp = 2
    /\ autoflush = FALSE
    /\ user_request_times = [u \in Users |-> IF u = "u1" THEN AlmostLimited ELSE <<>>]
    /\ rl_log = LogOf("u1", AlmostLimited)

SpecAccess == InitAccess /\ [][NextAccess]_vars

\* The characters the short texts are made of.
TitleChars == {"h", "i", "A", "b", " "}

RECURSIVE TextsUpTo(_)
\* The texts over TitleChars of length at most n.
TextsUpTo(n) ==
    IF n = 0 THEN {<<>>}
    ELSE LET shorter == TextsUpTo(n - 1) IN
         shorter \cup {Append(t, c) : t \in {x \in shorter : Len(x) = n - 1}, c \in TitleChars}

\* "Hi, can you help me plan a trip to Japan"
JapanText ==
    <<"H","i",","," ","c","a","n"," ","y","o","u"," ","h","e","l","p"," ","m","e"," ",
      "p","l","a","n"," ","a"," ","t","r","i","p"," ","t","o"," ","J","a","p","a","n">>

\* "hi can you help me plan a trip to Japan" (no comma after the greeting)
JapanTextPlain ==
    <<"h","i"," ","c","a","n"," ","y","o","u"," ","h","e","l","p"," ","m","e"," ",
      "p","l","a","n"," ","a"," ","t","r","i","p"," ","t","o"," ","J","a","p","a","n">>

\* Six words of nine letters: 59 characters once joined.
LongText ==
    LET w == [i \in 1..9 |-> "b"] IN Join(<<w, w, w, w, w, w>>)

\* Texts that are only a lead-in phrase, and white space with tabs and newlines.
LeadInOnly == {<<"h","i">>, <<"p","l","e","a","s","e">>, <<"h","e","l","p"," ","m","e">>}
BlankTexts == {<<"\t">>, <<"\n", " ", "\t">>}

TitleInputs == TextsUpTo(MaxText) \cup {JapanText, JapanTextPlain, LongText} \cup LeadInOnly \cup BlankTexts

InitTitle ==
    /\ gt_content \in TitleInputs
    /\ gt_title = <<>>
    /\ gt_pc = "idle"
    /\ ai_service = TRUE
    /\ env = [openrouter_key |-> TRUE, groq_key |-> FALSE, together_key |-> FALSE,
              openai_api_key |-> FALSE, use_proxy |-> FALSE, FORCE_OPENAI |-> FALSE]
    /\ AIAtRest
    /\ LedgerAtRest
    /\ TurnsAtRest
    /\ user_request_times = [u \in Users |-> <<>>]

NextTitle == GenerateChatTitle

SpecTitle == InitTitle /\ [][NextTitle]_vars

\* ------------------------------------------------------------------ claims

\* Position of provider p in the preference order.
Rank(p) == CHOOSE i \in 1..Len(PreferenceOrder) : PreferenceOrder[i] = p

\* chat_completion has finished (returned or raised).
CCFinished == ccResult.kind # "none"

\* C1: the providers are tried strictly in the preference order, each at most
\* once and none after a success; when the first N fail and provider N+1
\* succeeds, chat_completion returns provider N+1's content and token counts
\* after exactly N+1 attempts.
C1_FallbackReturnsFirstSuccess ==
    LET n == Len(attempts) IN
    /\ n <= Len(providers)
    /\ \A i \in 1..Len(providers) : \A j \in 1..Len(providers) :
           i < j => Rank(providers[i]) < Rank(providers[j])
    /\ \A i \in 1..n : attempts[i].provider = providers[i]
    /\ \A i \in 1..(n - 1) : attempts[i].response.kind # "ok"
    /\ (n >= 1 /\ attempts[n].response.kind = "ok") =>
           /\ CCFinished
           /\ ccResult = Return(<<"reply", providers[n]>>,
                                UsageGet(attempts[n].response.prompt_tokens),
                                UsageGet(attempts[n].response.completion_tokens))
    /\ (CCFinished /\ ccResult.kind = "return") =>
           (n >= 1 /\ attempts[n].response.kind = "ok")

\* Two providers failed, the third answered with token counts.
C1_Witness ==
    /\ aipc = "done"
    /\ Len(attempts) = 3
    /\ Len(providers) = 4
    /\ attempts[3].response.kind = "ok"
    /\ aiResult = Return(<<"reply", "Together AI">>, 1, 0)

\* C7: with an empty provider list chat_completion raises the "No AI
\* providers configured" error, which is not the "All AI providers failed"
\* error, and no provider is attempted; the other error is raised only after
\* every provider of a non-empty list was attempted.
C7_NoProvidersFailsWithoutAttempt ==
    /\ NoProvidersMsg # AllFailedMsg
    /\ (CCFinished /\ providers = <<>>) =>
           (ccResult = Raise(NoProvidersMsg) /\ attempts = <<>>)
    /\ (CCFinished /\ ccResult = Raise(AllFailedMsg)) =>
           (providers # <<>> /\ Len(attempts) = Len(providers))

\* Only an OpenAI key is set, without proxy or FORCE_OPENAI: the list is empty.
C7_Witness ==
    /\ aipc = "done"
    /\ ai_service
    /\ providers = <<>>
    /\ ccResult = Raise(NoProvidersMsg)
    /\ env.openai_api_key

\* chat_with_ai ended without a provider's answer.
AIFailed == ~ai_service \/ (CCFinished /\ ccResult.kind = "raise")

\* C8: chat_with_ai never raises; it returns a triple, and on every failure
\* outcome the text is non-empty and both token counts are 0.
C8_ChatWithAINeverRaises ==
    /\ aiResult.kind # "raise"
    /\ aipc = "done" =>
           /\ aiResult.kind = "return"
           /\ AIFailed =>
                  /\ Len(aiResult.content) > 0
                  /\ aiResult.input_tokens = 0
                  /\ aiResult.output_tokens = 0

\* Four providers failed in four different ways.
C8_Witness ==
    /\ aipc = "done"
    /\ Len(attempts) = 4
    /\ attempts[1].response.kind = "timeout"
    /\ attempts[2].response.kind = "rate_limit"
    /\ attempts[3].response.kind = "network"
    /\ attempts[4].response.kind = "malformed"
    /\ aiResult.kind = "return"

RECURSIVE SumField(_, _)
\* The sum of field f over the rows of S.
SumField(S, f) ==
    IF S = {} THEN 0
    ELSE LET r == CHOOSE x \in S : TRUE IN r[f] + SumField(S \ {r}, f)

Keys == Users \X Days

\* C2: once all calls have completed, for every (user_id, date) the stored
\* total_tokens is the sum of the (input_tokens + output_tokens) of the calls
\* made for it and the stored message_count is their number, whatever the
\* interleaving of the calls' query, add and commit steps. (Stored: summed
\* over the rows of the key, so a duplicate row by itself loses nothing.)
C2_NoLostUpdate ==
    NoCallActive =>
        \A k \in Keys :
            /\ SumField(RowsOf(k[1], k[2]), "total_tokens")
                  = applied[k].input_tokens + applied[k].output_tokens
            /\ SumField(RowsOf(k[1], k[2]), "message_count") = applied[k].message_count

\* C3: every committed Usage row has total_tokens = input_tokens + output_tokens.
C3_TotalIsInputPlusOutput ==
    \A r \in usage : r.total_tokens = r.input_tokens + r.output_tokens

\* C4: calls made one after another leave, for every (user_id, date) with at
\* least one call, exactly one row, whose input_tokens, output_tokens and
\* total_tokens are the sums of the calls' deltas and whose message_count is
\* the number of calls; a key with no call has no row.
C4_SequentialCallsAccumulate ==
    \A k \in Keys :
        LET rows == RowsOf(k[1], k[2])
            a == applied[k]
        IN  IF a.message_count = 0 THEN rows = {}
            ELSE \E r \in rows :
                    /\ rows = {r}
                    /\ r.input_tokens = a.input_tokens
                    /\ r.output_tokens = a.output_tokens
                    /\ r.total_tokens = a.input_tokens + a.output_tokens
                    /\ r.message_count = a.message_count

\* (1, 0) then (1, 1) for one user on one day: {2, 1, 3, 2}.
C4_Witness ==
    /\ NoCallActive
    /\ \E r \in usage :
        /\ r.input_tokens = 2
        /\ r.output_tokens = 1
        /\ r.total_tokens = 3
        /\ r.message_count = 2
        /\ applied[<<r.user_id, r.date>>].message_count = 2

\* C5: the table never holds two rows of one (user_id, date), and a row, once
\* there, stays and its counters never go down.
C5_OneRecordPerKey ==
    [][ /\ \A r1 \in usage' : \A r2 \in usage' :
              (r1.user_id = r2.user_id /\ r1.date = r2.date) => r1 = r2
        /\ \A r \in usage : \E r2 \in usage' :
              /\ r2.id = r.id
              /\ r2.user_id = r.user_id
              /\ r2.date = r.date
              /\ r2.input_tokens >= r.input_tokens
              /\ r2.output_tokens >= r.output_tokens
              /\ r2.total_tokens >= r.total_tokens
              /\ r2.message_count >= r.message_count ]_vars

UserStored(t) == \E m \in messages : m.id = <<t, "user">>
ReplyStored(t) == \E m \in messages : m.id = <<t, "assistant">>

\* C6: every step of a track_usage call other than its successful commit,
\* the failing one included, leaves the usage table, the messages, the chats
\* and the responses as they were, and a call that does not commit ends in
\* its except branch (it returns, nothing is raised to the caller).
C6_TrackUsageFailureIsContained ==
    [][ \A c \in Calls :
          (tpc'[c] # tpc[c] /\ tpc'[c] # "ok") =>
              /\ tpc'[c] \in {"query", "apply", "commit", "failed"}
              /\ usage' = usage
              /\ messages' = messages
              /\ chats' = chats
              /\ resp' = resp ]_vars

\* A turn answered 200 whose track_usage failed; both messages are stored.
C6_Witness ==
    \E t \in Turns :
        /\ tpc[t] = "failed"
        /\ resp[t].status = 200
        /\ UserStored(t)
        /\ ReplyStored(t)
        /\ usage # {}

\* The provider call of turn t has returned.
ProviderReturned(t) == sai[t].kind = "return"

\* C9 as stated: once the provider has been called the user's message is
\* already committed, and the reply and the usage update come only after the
\* provider call.
C9_UserMessageCommittedBeforeProviderCall ==
    \A t \in Turns :
        /\ ProviderReturned(t) => UserStored(t)
        /\ ReplyStored(t) => ProviderReturned(t)
        /\ tpc[t] # "idle" => ProviderReturned(t)

\* C9 as amended: until the single commit that follows the provider call the
\* user's message is only pending in the session; the user message and the
\* reply are stored only after the provider call has returned, and the usage
\* task runs only after both are stored.
C9_MessagesCommittedAfterProviderCall ==
    \A t \in Turns :
        /\ spc[t] \in {"history", "ai", "store"} => (~UserStored(t) /\ ~ReplyStored(t))
        /\ (UserStored(t) \/ ReplyStored(t)) => ProviderReturned(t)
        /\ tpc[t] # "idle" => (ProviderReturned(t) /\ UserStored(t) /\ ReplyStored(t))

\* A turn that went all the way: both messages stored, usage recorded.
C9_Witness ==
    \E t \in Turns :
        /\ spc[t] = "done"
        /\ tpc[t] = "ok"
        /\ resp[t].status = 200
        /\ UserStored(t)
        /\ ReplyStored(t)

\* C10: in every committed state a turn's user message is stored exactly
\* when its reply is; a finished turn either has both stored (the reply being
\* what chat_with_ai returned, a provider's text or a degraded text), or has
\* neither stored and was answered with an error.
C10_BothMessagesOrNeither ==
    \A t \in Turns :
        /\ UserStored(t) <=> ReplyStored(t)
        /\ \A m \in messages : m.id = <<t, "assistant">> => m.content = sai[t].content
        /\ spc[t] = "done" =>
              \/ UserStored(t) /\ ReplyStored(t)
              \/ ~UserStored(t) /\ ~ReplyStored(t) /\ resp[t].status \in {404, 408, 429, 500}

\* Every provider failed: the user message is stored with the degraded reply.
C10_Witness ==
    \E t \in Turns :
        /\ spc[t] = "done"
        /\ UserStored(t)
        /\ \E m \in messages :
              m.id = <<t, "assistant">> /\ m.content = <<"AI", "Error:">> \o AllFailedMsg

\* Some provider key is set (utils.py:14-21).
AnyKeySet(e) == e.openrouter_key \/ e.groq_key \/ e.together_key \/ e.openai_api_key

\* The key of provider p is set.
KeySet(e, p) ==
    CASE p = "OpenRouter" -> e.openrouter_key
      [] p = "Groq" -> e.groq_key
      [] p = "Together AI" -> e.together_key
      [] p = "OpenAI" -> e.openai_api_key

\* chat_completion has built its provider list.
ListBuilt == aipc = "loop" \/ CCFinished

\* C13: the list chat_completion builds is empty exactly when no provider
\* key is set; with some key set at least one provider has been attempted
\* when chat_completion ends; and no provider without a key is attempted.
C13_EmptyListIffNoCredential ==
    /\ ListBuilt => ((providers = <<>>) <=> ~AnyKeySet(env))
    /\ (CCFinished /\ AnyKeySet(env)) => Len(attempts) >= 1
    /\ \A i \in 1..Len(attempts) : KeySet(env, attempts[i].provider)

\* Every provider of a non-empty list has failed.
AllExhausted == CCFinished /\ ccResult = Raise(AllFailedMsg)

\* Some attempt was answered 403.
SomeGeoFailure == \E i \in 1..Len(attempts) : attempts[i].response.kind = "http_403"

\* C14: when every provider has failed, chat_with_ai returns the
\* geographic-restriction text if some provider failed with a 403, and the
\* generic error text otherwise.
C14_DegradedTextFollowsFailureReasons ==
    (aipc = "done" /\ AllExhausted) =>
        IF SomeGeoFailure
        THEN aiResult = Return(GeoText, 0, 0)
        ELSE aiResult = Return(<<"AI", "Error:">> \o AllFailedMsg, 0, 0)

\* The text is empty or white space only.
Blank(s) == \A i \in 1..Len(s) : IsSpace(s[i])

\* C16: for "Hi, can you help me plan a trip to Japan" the greeting and the
\* lead-ins are stripped and the title begins with "Plan"; the same text
\* without the comma after "hi" gives a title beginning with "Plan" as well.
C16_LeadInsStripped ==
    (gt_pc = "done" /\ gt_content \in {JapanText, JapanTextPlain}) =>
        Take(gt_title, 4) = <<"P", "l", "a", "n">>

\* C17: generate_chat_title returns a non-empty title for every text, and
\* exactly "New Chat" for an empty or white-space-only one.
C17_TitleNeverEmpty ==
    gt_pc = "done" =>
        /\ gt_title # <<>>
        /\ Blank(gt_content) => gt_title = NewChatLabel

\* A white-space-only text was given and "New Chat" came back.
C17_Witness ==
    /\ gt_pc = "done"
    /\ gt_content = <<"\n", " ", "\t">>
    /\ gt_title = NewChatLabel

\* Turn t runs its history query in this step.
QueryStep(t) == spc[t] = "history" /\ spc'[t] = "ai"

\* hist lists the rows of kept, oldest first, as (role, content) entries.
ListsOldestFirst(hist, kept) ==
    /\ Len(hist) = Cardinality(kept)
    /\ \A m \in kept :
          hist[1 + Cardinality({x \in kept : x.created_at < m.created_at})]
              = Entry(m.role, m.content)

\* The rows of S with fewer than n newer rows in S.
NewestOf(S, n) == {m \in S : Cardinality({x \in S : x.created_at > m.created_at}) < n}

\* All but the last entry of a list.
Front(s) == SubSeq(s, 1, Len(s) - 1)

\* C11: the list a history query builds has at most
\* MAX_CONVERSATION_HISTORY + 2 entries, and what precedes its last entry is
\* the MAX_CONVERSATION_HISTORY newest rows stored for the chat (committed,
\* or inserted by the request's own transaction), oldest first.
C11_HistoryIsBoundedTail ==
    [][ \A t \in Turns : QueryStep(t) =>
          LET stored == {m \in messages \cup ssess'[t].flushed : m.chat_id = sreq[t].chat_id}
          IN  /\ Len(sctx'[t]) <= MAX_CONVERSATION_HISTORY + 2
              /\ ListsOldestFirst(Front(sctx'[t]), NewestOf(stored, MAX_CONVERSATION_HISTORY)) ]_vars

\* A list built from a chat with more rows than the cap: the oldest is dropped.
C11_Witness ==
    \E t \in Turns :
        /\ spc[t] = "ai"
        /\ Cardinality({m \in messages : m.chat_id = sreq[t].chat_id}) > MAX_CONVERSATION_HISTORY
        /\ Len(sctx[t]) = MAX_CONVERSATION_HISTORY + 1

\* The list of turn t has been handed to chat_with_ai.
Handed(t) == sai[t].kind = "return"

\* C12: every list handed to chat_with_ai begins with a system message and
\* has no system message after its first entry.
C12_SystemPromptFirst ==
    \A t \in Turns : Handed(t) =>
        /\ sctx[t] # <<>>
        /\ sctx[t][1].role = "system"
        /\ \A i \in 2..Len(sctx[t]) : sctx[t][i].role # "system"

C20_MessageCountIsRowCount ==
    \A ch \in ChatIds :
        chats[ch].message_count = Cardinality({m \in messages : m.chat_id = ch})

\* The admitted calls of the user of entry k whose times are in [lo, hi).
AdmittedIn(k, lo, hi) ==
    {j \in 1..Len(rl_log) :
        /\ rl_log[j].user = rl_log[k].user
        /\ rl_log[j].admit
        /\ lo <= rl_log[j].time /\ rl_log[j].time < hi}

\* C15: of one user's admitted calls at most RateLimit have their times in
\* any window of RateWindow seconds, and a call is refused only when
\* RateLimit admitted calls of that user lie in the RateWindow seconds up to it.
C15_AtMostLimitPerWindow ==
    \A k \in 1..Len(rl_log) :
        IF rl_log[k].admit
        THEN Cardinality(AdmittedIn(k, rl_log[k].time, rl_log[k].time + RateWindow)) <= RateLimit
        ELSE Cardinality({j \in AdmittedIn(k, rl_log[k].time - RateWindow + 1, rl_log[k].time + 1) : j < k})
                 >= RateLimit

\* A user was refused and, once the window had moved on, admitted again.
C15_Witness ==
    \E k \in 1..Len(rl_log) : \E j \in 1..Len(rl_log) :
        /\ k < j
        /\ rl_log[k].user = rl_log[j].user
        /\ ~rl_log[k].admit
        /\ rl_log[j].admit

\* The turns of user u whose messages are committed.
CommittedTurns(u) == {t \in Turns : sreq[t].user_id = u /\ ReplyStored(t)}

RECURSIVE TokensReturned(_)
\* The token counts chat_with_ai returned to the turns of T, summed.
TokensReturned(T) ==
    IF T = {} THEN 0
    ELSE LET t == CHOOSE x \in T : TRUE
         IN  sai[t].input_tokens + sai[t].output_tokens + TokensReturned(T \ {t})

\* The Usage rows of user u.
UsageOf(u) == {r \in usage : r.user_id = u}

\* C18: with turns one after another: a finished turn whose messages are
\* committed has had its track_usage call, made with the token counts its
\* chat_with_ai call returned; a turn answered with an error has had none;
\* and when no track_usage call has failed, each user's message_count is the
\* number of their committed turns and total_tokens the sum of the token
\* counts returned to them.
C18_OneUsageCallPerCommittedTurn ==
    /\ \A t \in Turns :
          /\ (spc[t] = "done" /\ ReplyStored(t)) => tpc[t] # "idle"
          /\ (spc[t] = "done" /\ resp[t].status # 200) => tpc[t] = "idle"
          /\ tpc[t] \in {"query", "apply", "commit"} =>
                targs[t] = [user_id |-> sreq[t].user_id,
                            input_tokens |-> sai[t].input_tokens,
                            output_tokens |-> sai[t].output_tokens]
    /\ (AllQuiet /\ \A t \in Turns : tpc[t] # "failed") =>
          \A u \in Users :
              /\ SumField(UsageOf(u), "message_count") = Cardinality(CommittedTurns(u))
              /\ SumField(UsageOf(u), "total_tokens") = TokensReturned(CommittedTurns(u))

\* The answer of send_message to a request its rate limiter refused.
RateLimited == Http(429, "Rate limit exceeded. Please wait a moment.")

\* C22: the step in which send_message is refused by check_rate_limit
\* changes no table, no session, no provider result, no usage call and not
\* the user's request window (the refused time is not recorded); and a
\* refused request never has a message stored, a provider result or a
\* track_usage call.
C22_RefusedRequestHasNoEffect ==
    [][ \A t \in Turns :
          /\ (resp[t] # RateLimited /\ resp'[t] = RateLimited) =>
                /\ messages' = messages
                /\ chats' = chats
                /\ usage' = usage
                /\ tpc' = tpc
                /\ sai' = sai
                /\ ssess' = ssess
                /\ stamp' = stamp
                /\ user_request_times' = user_request_times
                /\ ~rl_log'[Len(rl_log')].admit
          /\ resp[t] = RateLimited =>
                /\ spc'[t] = "done"
                /\ sai'[t] = NoResult
                /\ tpc'[t] = "idle"
                /\ ~\E m \in messages' : m.id[1] = t ]_vars

\* A request was refused and the user's window holds the RateLimit admitted
\* times and nothing else.
C22_Witness ==
    \E t \in Turns :
        /\ resp[t] = RateLimited
        /\ Len(user_request_times[sreq[t].user_id]) = RateLimit
        /\ Len(rl_log) = RateLimit + 1
        /\ \E b \in Turns : resp[b].status = 200

(***************************************************************************)
(* Ownership of chats                                                      *)
(***************************************************************************)

\* models.py:27: the user a chat belongs to (user_id is never reassigned).
Owner(ch) == NoChat[ch].user_id

NotFound == Http(404, "Chat not found")

\* Turn t's send_message request is received in this step.
Received(t) == spc[t] = "idle" /\ spc'[t] # "idle"

\* A get_messages or delete_chat call is answered in this step.
Answered == last_resp' # last_resp

\* The rows a session holds that are not committed.
Held(sess) == sess.pending \cup sess.flushed

\* Nothing stored, pending, scheduled or asked of a provider changes.
NothingTouched ==
    /\ messages' = messages /\ chats' = chats /\ usage' = usage
    /\ ssess' = ssess /\ sai' = sai /\ sctx' = sctx /\ tpc' = tpc
    /\ UNCHANGED aiVars

\* A call by someone who does not own the chat ends with one of the outcomes
\* in sendOutcomes (send_message) or with 404 (get_messages, delete_chat)
\* and touches nothing; rows are added, read and deleted for the owner only.
OwnerOnly(sendOutcomes) ==
    /\ \A t \in Turns :
          (Received(t) /\ sreq'[t].user_id # Owner(sreq'[t].chat_id)) =>
              /\ resp'[t] \in sendOutcomes
              /\ spc'[t] = "done"
              /\ NothingTouched
    /\ (Answered /\ last_resp'.user_id # Owner(last_resp'.chat_id)) =>
          /\ last_resp'.status = 404
          /\ last_resp'.detail = "Chat not found"
          /\ last_resp'.body = <<>>
          /\ NothingTouched
    \* added
    /\ \A m \in messages' \ messages :
          \E t \in Turns : /\ m.id[1] = t
                           /\ sreq[t].chat_id = m.chat_id
                           /\ sreq[t].user_id = Owner(m.chat_id)
    /\ \A t \in Turns : \A m \in Held(ssess'[t]) :
          /\ sreq'[t].chat_id = m.chat_id
          /\ sreq'[t].user_id = Owner(m.chat_id)
    \* read
    /\ \A t \in Turns :
          (spc[t] = "history" /\ spc'[t] # "history") =>
              sreq[t].user_id = Owner(sreq[t].chat_id)
    /\ (Answered /\ last_resp'.op = "get_messages" /\ last_resp'.status = 200) =>
          /\ last_resp'.user_id = Owner(last_resp'.chat_id)
          /\ \A i \in 1..Len(last_resp'.body) : last_resp'.body[i].chat_id = last_resp'.chat_id
    \* deleted
    /\ messages \ messages' # {} =>
          /\ last_resp'.op = "delete_chat" /\ last_resp'.status = 200
          /\ last_resp'.user_id = Owner(last_resp'.chat_id)
          /\ \A m \in messages \ messages' : m.chat_id = last_resp'.chat_id

\* C21 as stated: for every user U and chat C not owned by U, send_message,
\* get_messages and delete_chat by U on C end with 404 "Chat not found",
\* leave C, its messages and the usage records unchanged and call no
\* provider; messages are added, read and deleted by the owner only.
C21_NonOwnerAlwaysNotFound == [][OwnerOnly({NotFound})]_vars

\* C21 amended: as above, except that a send_message by a non-owner that the
\* rate limiter refuses ends with 429 (the rate limit is checked before the
\* ownership of the chat); in every case nothing is touched and no provider
\* is called.
C21_NonOwnerNotFoundOrRateLimited ==
    [][ /\ OwnerOnly({NotFound, RateLimited})
        /\ \A t \in Turns :
              (Received(t) /\ resp'[t] = RateLimited) => ~rl_log'[Len(rl_log')].admit ]_vars

\* Non-owner u2 was answered 404 by send_message and by delete_chat on a
\* chat that is still there with its messages, which its owner has read.
C21_Witness ==
    /\ last_resp = Answer("delete_chat", "u2", "c1", 404, "Chat not found", <<>>)
    /\ "c1" \in DOMAIN chats /\ PriorMessages \subseteq messages
    /\ \E t \in Turns : /\ resp[t] = NotFound
                        /\ sreq[t].user_id = "u2" /\ sreq[t].chat_id = "c1"
    /\ \E t \in Turns : /\ sreq[t].user_id = "u1" /\ sreq[t].chat_id = "c1"
                        /\ sctx[t] # <<>>

====
